---- MODULE Spec2Model ----
(***************************************************************************)
(* A model of the HTTP access layer of sec-edgar-toolkit (TypeScript SDK): *)
(* the bounded TTL/LRU Cache (utils/cache.ts) and the HttpClient with its  *)
(* rate-limit gate, retry loop and response cache (utils/http-client.ts).  *)
(* Time is Date.now() in milliseconds.                                     *)
(***************************************************************************)
EXTENDS Integers, Sequences, FiniteSets, TLC

(* ------------------------------ bounds -------------------------------- *)

\* Date.now() when the objects are constructed.
StartNow == 100
\* How many 1 ms steps the clock takes; later instants are reached by
\* jumping to the deadline of a pending timer.
MaxTicks == 3
\* How many 1 ms steps the clock of an HttpClient run takes.
HttpTicks == 2
\* How many set and get calls a run of the Cache makes.
MaxUses == 4
\* How many get() calls a run of the HttpClient makes, and how many callers
\* make them concurrently.
MaxGets == 3
NumCallers == 2
\* Largest maxRetries option handed to the HttpClient constructor.
MaxRetriesOpt == 7
\* A short rateLimitDelay option, in ms.
ShortDelay == 2
\* Largest maxSize option handed to the Cache constructor.
MaxSizeOpt == 2
\* Largest ttl, in ms, handed to set(); the constructor's is one more.
MaxTtl == 1

(* ------------------------- values of the program ---------------------- *)

\* JavaScript's undefined, for an optional number that is absent.
Undefined == -999999
\* JavaScript's null as a cached datum and as the result of get() on a miss.
Null == "null"

Keys == {"k1", "k2", "k3"}
Values == {Null, "v1"}

\* a || b on optional numbers: b when a is undefined or 0.
Or(a, b) == IF a # Undefined /\ a # 0 THEN a ELSE b

Min(a, b) == IF a <= b THEN a ELSE b

RECURSIVE Pow2(_)
Pow2(n) == IF n <= 0 THEN 1 ELSE 2 * Pow2(n - 1)

(* ------------------------------ state --------------------------------- *)

VARIABLES
    now,        \* Date.now()
    store,      \* the Cache object: cache (Map), accessOrder, hits, misses
    options,    \* Cache.options after the constructor: ttl, maxSize
    scope,      \* the keys, values and ttl arguments the callers use
    lastOp,     \* the Cache operation just performed and what it returned
    useClock,   \* number of set and get calls so far
    lastUse,    \* stored key -> number of the call that last accessed it
    setAt,      \* stored key -> Date.now() of its latest set
    ttlGiven,   \* stored key -> the TTL its latest set was made with
    client,     \* the HttpClient's fields set by its constructor
    lastRequestTime,  \* HttpClient.lastRequestTime
    calls,      \* the get() calls in progress, one per caller
    started,    \* number of get() calls made so far
    lastDispatch,     \* Date.now() at the latest fetch dispatch
    lastGap     \* time between the two latest fetch dispatches

cacheVars == <<store, options, scope, lastOp, useClock, lastUse, setAt, ttlGiven>>
cacheBook == <<lastOp, useClock, lastUse, setAt, ttlGiven>>
httpVars == <<client, lastRequestTime, calls, started, lastDispatch, lastGap>>

(* ------------------------------ Cache --------------------------------- *)

\* Cache.constructor: options.ttl || 3600000, options.maxSize || 1000.
DefaultTtl == 3600000
DefaultMaxSize == 1000
CacheOptions(ttl, maxSize) ==
    [ttl |-> Or(ttl, DefaultTtl), maxSize |-> Or(maxSize, DefaultMaxSize)]

EmptyMap == [k \in {} |-> 0]
NewCache == [cache |-> EmptyMap, accessOrder |-> <<>>, hits |-> 0, misses |-> 0]

Size(S) == Cardinality(DOMAIN S.cache)

\* entry.expiry && Date.now() > entry.expiry
ExpiredGe(entry, t) ==
    entry.expiry # Undefined /\ entry.expiry # 0 /\ t >= entry.expiry
Expired(entry, t) ==
    entry.expiry # Undefined /\ entry.expiry # 0 /\ t > entry.expiry

\* accessOrder.indexOf(key), then splice(index, 1): the first occurrence goes.
removeFromAccessOrder(order, key) ==
    IF \E i \in 1..Len(order) : order[i] = key
    THEN LET i == CHOOSE i \in 1..Len(order) :
                      order[i] = key /\ \A j \in 1..(i - 1) : order[j] # key
         IN  SubSeq(order, 1, i - 1) \o SubSeq(order, i + 1, Len(order))
    ELSE order

updateAccessOrderFront(order, key) ==
    <<key>> \o removeFromAccessOrder(order, key)
updateAccessOrder(order, key) ==
    Append(removeFromAccessOrder(order, key), key)

\* Cache.delete: removeFromAccessOrder, then Map.delete.
CacheDeleteEntryOnly(S, key) ==
    [S EXCEPT !.cache = [k \in (DOMAIN @) \ {key} |-> @[k]]]
CacheDelete(S, key) ==
    [S EXCEPT !.accessOrder = removeFromAccessOrder(@, key),
              !.cache = [k \in (DOMAIN @) \ {key} |-> @[k]]]

evictNothing(S) == S
evictLRU(S) ==
    IF Len(S.accessOrder) > 0 THEN CacheDelete(S, S.accessOrder[1]) ELSE S

\* Cache.set(key, data, ttl) at time t.
CacheSet(S, opts, key, data, ttl, t) ==
    LET expiry == Or(ttl, opts.ttl)
        S1 == IF Size(S) >= opts.maxSize /\ key \notin DOMAIN S.cache
              THEN evictLRU(S) ELSE S
        entry == [data |-> data, timestamp |-> t,
                  expiry |-> IF expiry > 0 THEN t + expiry ELSE Undefined]
    IN  [S1 EXCEPT !.cache = [k \in (DOMAIN @) \cup {key} |->
                                 IF k = key THEN entry ELSE @[k]],
                   !.accessOrder = updateAccessOrder(@, key)]

\* Cache.get(key) at time t: the object afterwards and the value returned.
CacheGet(S, key, t) ==
    IF key \notin DOMAIN S.cache
    THEN [S |-> [S EXCEPT !.misses = @ + 1], result |-> Null]
    ELSE IF Expired(S.cache[key], t)
    THEN [S |-> [CacheDelete(S, key) EXCEPT !.misses = @ + 1], result |-> Null]
    ELSE [S |-> [S EXCEPT !.accessOrder = updateAccessOrder(@, key),
                          !.hits = @ + 1],
          result |-> S.cache[key].data]

\* Cache.has(key) at time t.
CacheHasCounting(S, key, t) ==
    IF key \notin DOMAIN S.cache
    THEN [S |-> [S EXCEPT !.misses = @ + 1], result |-> "false"]
    ELSE IF Expired(S.cache[key], t)
    THEN [S |-> [CacheDelete(S, key) EXCEPT !.misses = @ + 1], result |-> "false"]
    ELSE [S |-> S, result |-> "true"]
CacheHas(S, key, t) ==
    IF key \notin DOMAIN S.cache THEN [S |-> S, result |-> "false"]
    ELSE IF Expired(S.cache[key], t)
    THEN [S |-> CacheDelete(S, key), result |-> "false"]
    ELSE [S |-> S, result |-> "true"]

\* Cache.getStats; the quotient hits / (hits + misses) is kept as a fraction.
Ratio(num, den) == [num |-> num, den |-> den]
getStats(S) ==
    [size |-> Size(S), hits |-> S.hits, misses |-> S.misses,
     hitRate |-> IF S.hits + S.misses > 0
                 THEN Ratio(S.hits, S.hits + S.misses) ELSE Ratio(0, 1)]

\* Cache.clear.
CacheClear(S) == [S EXCEPT !.cache = EmptyMap, !.accessOrder = <<>>]

\* Deleting every key of a set, as the loops of invalidatePattern and cleanup do.
RECURSIVE DeleteAll(_, _)
DeleteAll(S, ks) ==
    IF ks = {} THEN S
    ELSE LET k == CHOOSE k \in ks : TRUE
         IN  DeleteAll(CacheDelete(S, k), ks \ {k})

\* Cache.invalidatePattern; the RegExp is given by the set of keys it matches.
CacheInvalidatePattern(S, matches) ==
    DeleteAll(S, {k \in DOMAIN S.cache : k \in matches})

\* Cache.cleanup at time t.
CacheCleanup(S, t) ==
    DeleteAll(S, {k \in DOMAIN S.cache : Expired(S.cache[k], t)})

(* ---------------------------- HttpClient ------------------------------ *)

\* HttpClient.constructor. The rateLimitDelay option is in seconds; it is
\* given here already multiplied by 1000: (options.rateLimitDelay || 0.1) * 1000.
DefaultRateLimitDelay == 100
DefaultMaxRetries == 3
DefaultTimeout == 30000
\* The cache options the constructor uses when options.cache is absent.
DefaultCacheTtl == 300000
DefaultCacheMaxSize == 500
HttpClient(rateLimitDelay, maxRetries, timeout, cache) ==
    [rateLimitDelay |-> Or(rateLimitDelay, DefaultRateLimitDelay),
     maxRetries |-> Or(maxRetries, DefaultMaxRetries),
     timeout |-> Or(timeout, DefaultTimeout),
     cache |-> cache]

\* The errors of exceptions/base.ts and exceptions/errors.ts: class and statusCode.
Err(class, statusCode) == [class |-> class, statusCode |-> statusCode]
NoError == Err("none", Undefined)
\* The classes that extend SecEdgarApiError.
ApiErrorClasses ==
    {"SecEdgarApiError", "RateLimitError", "AuthenticationError", "NotFoundError",
     "RequestError", "TimeoutError", "NetworkError"}

\* HttpClient.handleHttpError: the error thrown for a response that is not ok.
handleHttpError(status) ==
    CASE status = 401 -> Err("AuthenticationError", 401)
      [] status = 404 -> Err("NotFoundError", 404)
      [] status = 429 -> Err("RateLimitError", 429)
      [] OTHER -> Err("RequestError", status)

\* What one attempt of get() throws inside the try block, by outcome:
\* a response that is not ok, the abort of the timeout, a transport failure
\* whose message names ENOTFOUND/ECONNREFUSED/ETIMEDOUT/NetworkError, or any
\* other error (response.json() rejecting, another transport failure).
Raised(outcome) ==
    CASE outcome.kind = "http" -> handleHttpError(outcome.status)
      [] outcome.kind = "abort" -> Err("AbortError", Undefined)
      [] outcome.kind = "net" -> Err("FetchError:ENOTFOUND", Undefined)
      [] OTHER -> Err("Error", Undefined)

\* The catch block of get(): the error kept as lastError, and whether the
\* block rethrows it at once.
CatchRetry404(error) ==
    IF error.class = "AbortError"
    THEN [lastError |-> Err("TimeoutError", Undefined), rethrow |-> FALSE]
    ELSE IF error.class = "FetchError:ENOTFOUND"
    THEN [lastError |-> Err("NetworkError", Undefined), rethrow |-> FALSE]
    ELSE IF error.class \in ApiErrorClasses
    THEN [lastError |-> error,
          rethrow |-> /\ error.statusCode # Undefined /\ error.statusCode # 0
                      /\ error.statusCode >= 400
                      /\ error.statusCode < 500
                      /\ error.statusCode # 429
                      /\ error.statusCode # 404]
    ELSE [lastError |-> error, rethrow |-> FALSE]
Catch(error) ==
    IF error.class = "AbortError"
    THEN [lastError |-> Err("TimeoutError", Undefined), rethrow |-> FALSE]
    ELSE IF error.class = "FetchError:ENOTFOUND"
    THEN [lastError |-> Err("NetworkError", Undefined), rethrow |-> FALSE]
    ELSE IF error.class \in ApiErrorClasses
    THEN [lastError |-> error,
          rethrow |-> /\ error.statusCode # Undefined /\ error.statusCode # 0
                      /\ error.statusCode >= 400
                      /\ error.statusCode < 500
                      /\ error.statusCode # 429]
    ELSE [lastError |-> error, rethrow |-> FALSE]

\* Math.pow(2, attempt) * 1000
BackoffTime(attempt) == Pow2(attempt) * 1000

\* if (attempt === this.maxRetries) break, the end of the retry loop.
LastAttemptEarly(attempt, maxRetries) == attempt + 1 >= maxRetries
LastAttempt(attempt, maxRetries) == attempt = maxRetries

\* The class each error class extends.
SuperClass ==
    [c \in {"Error", "SyntaxError", "SecEdgarApiError", "RateLimitError",
            "AuthenticationError", "NotFoundError", "ConfigurationError",
            "InvalidUserAgentError", "RequestError", "TimeoutError", "NetworkError",
            "ValidationError", "InvalidFormTypeError"} |->
        CASE c \in {"Error"} -> "Object"
          [] c \in {"SyntaxError", "SecEdgarApiError"} -> "Error"
          [] c \in {"TimeoutError", "NetworkError"} -> "RequestError"
          [] c = "InvalidUserAgentError" -> "ConfigurationError"
          [] c = "InvalidFormTypeError" -> "ValidationError"
          [] OTHER -> "SecEdgarApiError"]

\* error instanceof class
RECURSIVE InstanceOf(_, _)
InstanceOf(class, ancestor) ==
    \/ class = ancestor
    \/ class \in DOMAIN SuperClass /\ InstanceOf(SuperClass[class], ancestor)

\* ErrorHandler.isRetryable(error)
isRetryableNo408(error) ==
    \/ InstanceOf(error.class, "RateLimitError")
    \/ InstanceOf(error.class, "TimeoutError")
    \/ InstanceOf(error.class, "NetworkError")
    \/ /\ InstanceOf(error.class, "RequestError")
       /\ error.statusCode # Undefined /\ error.statusCode # 0
       /\ error.statusCode >= 500
isRetryable(error) ==
    \/ InstanceOf(error.class, "RateLimitError")
    \/ InstanceOf(error.class, "TimeoutError")
    \/ InstanceOf(error.class, "NetworkError")
    \/ /\ InstanceOf(error.class, "RequestError")
       /\ \/ /\ error.statusCode # Undefined /\ error.statusCode # 0
             /\ error.statusCode >= 500
          \/ error.statusCode = 408

\* ErrorHandler.getRetryDelay(error, attempt)
MaxRateLimitDelay == 60000
MaxRetryDelay == 30000
getRetryDelayUncapped(error, attempt) ==
    IF InstanceOf(error.class, "RateLimitError")
    THEN Pow2(attempt) * 5000
    ELSE Pow2(attempt) * 1000
getRetryDelay(error, attempt) ==
    IF error.class = "RateLimitError"
    THEN Min(MaxRateLimitDelay, Pow2(attempt) * 5000)
    ELSE Min(MaxRetryDelay, Pow2(attempt) * 1000)

\* The failures the retry policy is documented for: HTTP 429, HTTP 5xx, the
\* timeout and the transport failures.
TransientFailure(o) ==
    \/ o.kind \in {"abort", "net"}
    \/ o.kind = "http" /\ (o.status = 429 \/ o.status >= 500)

\* JSON.stringify of the argument array of generateKey: undefined becomes null.
JSONstringify(values) ==
    [i \in 1..Len(values) |-> IF values[i] = "undefined" THEN "null" ELSE values[i]]
\* Cache.generateKey: the md5 digest of the serialisation, taken as one-to-one.
generateKey(values) == JSONstringify(values)
\* RequestCache.generateRequestKey(url, options)
generateRequestKey(url, opts) == generateKey(<<url, opts>>)

\* An options object is the sequence of its <<name, value>> properties in
\* insertion order. JSON.stringify writes them in that order.
RECURSIVE JSONproperties(_)
JSONproperties(obj) ==
    IF obj = <<>> THEN <<>>
    ELSE <<Head(obj)[1], ":", Head(obj)[2]>>
             \o (IF Len(obj) > 1 THEN <<",">> ELSE <<>>)
             \o JSONproperties(Tail(obj))
JSONstringifyObject(obj) == <<"{">> \o JSONproperties(obj) \o <<"}">>
\* Cache.generateKey(url, options) for an options object.
generateKeyObject(url, obj) == <<url>> \o JSONstringifyObject(obj)

\* One get() call: where it is, its locals, and what it did so far.
IdleCall ==
    [pc |-> "idle", url |-> "", skipCache |-> FALSE, attempt |-> 0,
     lastError |-> NoError, wakeAt |-> 0, fetchAt |-> 0, result |-> "",
     fetches |-> 0, backoffTime |-> 0, outcome |-> [kind |-> "none"],
     onlyTransient |-> TRUE]

\* No HttpClient is in use.
NoHttp ==
    /\ client = HttpClient(Undefined, Undefined, Undefined, FALSE)
    /\ lastRequestTime = 0
    /\ calls = <<>>
    /\ started = 0
    /\ lastDispatch = Undefined
    /\ lastGap = Undefined

(* --------------------- operations on a Cache object ------------------- *)

TtlArgs == {Undefined, -1, 0} \cup (1..MaxTtl)
TtlOptions == {Undefined, MaxTtl + 1}
SizeOptions == 1..MaxSizeOpt

NoOp == [op |-> "new", key |-> "", result |-> "", stored |-> FALSE, evicted |-> {}]

\* A Cache used with default TTLs: capacity and eviction order.
InitCache ==
    /\ now = StartNow
    /\ store = NewCache
    /\ \E ttl \in TtlOptions, maxSize \in SizeOptions :
           options = CacheOptions(ttl, maxSize)
    /\ scope = [keys |-> Keys, values |-> {"v1"}, ttls |-> {Undefined}]
    /\ lastOp = NoOp
    /\ useClock = 0
    /\ lastUse = [k \in Keys |-> 0]
    /\ setAt = [k \in Keys |-> 0]
    /\ ttlGiven = [k \in Keys |-> 0]
    /\ NoHttp

\* The bookkeeping follows the stored keys only.
Kept(f, S) == [k \in Keys |-> IF k \in DOMAIN S.cache THEN f[k] ELSE 0]
Forget == setAt' = Kept(setAt, store') /\ ttlGiven' = Kept(ttlGiven, store')

Set(key, data, ttl) ==
    /\ useClock < MaxUses
    /\ store' = CacheSet(store, options, key, data, ttl, now)
    /\ lastOp' = [op |-> "set", key |-> key, result |-> "",
                  stored |-> key \in DOMAIN store.cache,
                  evicted |-> (DOMAIN store.cache) \ (DOMAIN store'.cache)]
    /\ useClock' = useClock + 1
    /\ lastUse' = Kept([lastUse EXCEPT ![key] = useClock + 1], store')
    /\ setAt' = Kept([setAt EXCEPT ![key] = now], store')
    /\ ttlGiven' = Kept([ttlGiven EXCEPT ![key] =
                             IF ttl # Undefined THEN ttl ELSE options.ttl], store')
    /\ UNCHANGED <<now, options, scope, httpVars>>

Get(key) ==
    /\ useClock < MaxUses
    /\ LET r == CacheGet(store, key, now)
           hit == r.S.hits > store.hits
       IN  /\ store' = r.S
           /\ lastOp' = [op |-> "get", key |-> key, result |-> r.result,
                         stored |-> key \in DOMAIN store.cache, evicted |-> {}]
           /\ useClock' = useClock + 1
           /\ lastUse' = Kept(IF hit THEN [lastUse EXCEPT ![key] = useClock + 1]
                                     ELSE lastUse, store')
    /\ Forget
    /\ UNCHANGED <<now, options, scope, httpVars>>

Has(key) ==
    /\ LET r == CacheHas(store, key, now)
       IN  /\ store' = r.S
           /\ lastOp' = [op |-> "has", key |-> key, result |-> r.result,
                         stored |-> key \in DOMAIN store.cache, evicted |-> {}]
    /\ lastUse' = Kept(lastUse, store')
    /\ Forget
    /\ UNCHANGED <<now, options, scope, useClock, httpVars>>

Delete(key) ==
    /\ store' = CacheDelete(store, key)
    /\ lastOp' = [NoOp EXCEPT !.op = "delete"]
    /\ lastUse' = Kept(lastUse, store')
    /\ Forget
    /\ UNCHANGED <<now, options, scope, useClock, httpVars>>

Clear ==
    /\ store' = CacheClear(store)
    /\ lastOp' = [NoOp EXCEPT !.op = "clear"]
    /\ lastUse' = Kept(lastUse, store')
    /\ Forget
    /\ UNCHANGED <<now, options, scope, useClock, httpVars>>

Cleanup ==
    /\ store' = CacheCleanup(store, now)
    /\ lastOp' = [NoOp EXCEPT !.op = "cleanup"]
    /\ lastUse' = Kept(lastUse, store')
    /\ Forget
    /\ UNCHANGED <<now, options, scope, useClock, httpVars>>

InvalidatePattern(matches) ==
    /\ store' = CacheInvalidatePattern(store, matches)
    /\ lastOp' = [NoOp EXCEPT !.op = "invalidatePattern"]
    /\ lastUse' = Kept(lastUse, store')
    /\ Forget
    /\ UNCHANGED <<now, options, scope, useClock, httpVars>>

\* The clock advances by one millisecond.
Tick ==
    /\ now < StartNow + MaxTicks
    /\ now' = now + 1
    /\ lastOp' = [NoOp EXCEPT !.op = "tick"]
    /\ UNCHANGED <<store, options, scope, useClock, lastUse, setAt, ttlGiven, httpVars>>

NextCache ==
    \/ \E key \in scope.keys, data \in scope.values, ttl \in scope.ttls :
           Set(key, data, ttl)
    \/ \E key \in scope.keys : Get(key)
    \/ \E key \in scope.keys : Has(key)
    \/ \E key \in scope.keys : Delete(key)
    \/ Clear
    \/ Cleanup
    \/ \E matches \in SUBSET scope.keys : InvalidatePattern(matches)
    \/ Tick

vars == <<now, store, options, scope, lastOp, useClock, lastUse, setAt, ttlGiven,
          client, lastRequestTime, calls, started, lastDispatch, lastGap>>

CacheSpec == InitCache /\ [][NextCache]_vars

\* A Cache whose callers give TTLs of their own: expiry.
InitTtl ==
    /\ now = StartNow
    /\ store = NewCache
    /\ \E ttl \in TtlOptions : options = CacheOptions(ttl, Undefined)
    /\ scope = [keys |-> {"k1", "k2"}, values |-> {"v1"}, ttls |-> TtlArgs]
    /\ lastOp = NoOp
    /\ useClock = 0
    /\ lastUse = [k \in Keys |-> 0]
    /\ setAt = [k \in Keys |-> 0]
    /\ ttlGiven = [k \in Keys |-> 0]
    /\ NoHttp

TtlSpec == InitTtl /\ [][NextCache]_vars

(* ------------------- operations on a RequestCache --------------------- *)

\* Options objects over two properties, in both insertion orders.
OptionObjects ==
    {<<>>, <<<<"a", "1">>>>, <<<<"b", "2">>>>,
     <<<<"a", "1">>, <<"b", "2">>>>, <<<<"b", "2">>, <<"a", "1">>>>}

\* A RequestCache with the default options, addressed by URL and options.
InitKey ==
    /\ now = StartNow
    /\ store = NewCache
    /\ options = CacheOptions(Undefined, Undefined)
    /\ scope = [urls |-> {"u1"}, responses |-> {"v1"}, objects |-> OptionObjects]
    /\ lastOp = NoOp
    /\ useClock = 0
    /\ lastUse = [k \in Keys |-> 0]
    /\ setAt = [k \in Keys |-> 0]
    /\ ttlGiven = [k \in Keys |-> 0]
    /\ NoHttp

\* RequestCache.set(url, response, options)
RequestSet(url, response, obj) ==
    /\ useClock < MaxUses
    /\ LET key == generateKeyObject(url, obj)
       IN  /\ store' = CacheSet(store, options, key, response, Undefined, now)
           /\ lastOp' = [op |-> "set", key |-> [url |-> url, options |-> obj],
                         result |-> "", stored |-> key \in DOMAIN store.cache,
                         evicted |-> {}]
    /\ useClock' = useClock + 1
    /\ UNCHANGED <<now, options, scope, lastUse, setAt, ttlGiven, httpVars>>

\* RequestCache.get(url, options)
RequestGet(url, obj) ==
    /\ useClock < MaxUses
    /\ LET key == generateKeyObject(url, obj)
           r == CacheGet(store, key, now)
       IN  /\ store' = r.S
           /\ lastOp' = [op |-> "get", key |-> [url |-> url, options |-> obj],
                         result |-> r.result, stored |-> key \in DOMAIN store.cache,
                         evicted |-> {}]
    /\ useClock' = useClock + 1
    /\ UNCHANGED <<now, options, scope, lastUse, setAt, ttlGiven, httpVars>>

NextKey ==
    \/ \E url \in scope.urls, response \in scope.responses, obj \in scope.objects :
           RequestSet(url, response, obj)
    \/ \E url \in scope.urls, obj \in scope.objects : RequestGet(url, obj)

KeySpec == InitKey /\ [][NextKey]_vars

(* ---------------------- calls of the ErrorHandler --------------------- *)

MaxAttempt == 7

\* Errors the constructors of the exception classes can build.
Errors ==
    {Err("Error", Undefined), Err("SyntaxError", Undefined),
     Err("RateLimitError", 429), Err("AuthenticationError", 401),
     Err("NotFoundError", 404), Err("TimeoutError", Undefined),
     Err("NetworkError", Undefined), Err("ConfigurationError", Undefined),
     Err("InvalidUserAgentError", Undefined), Err("ValidationError", Undefined),
     Err("InvalidFormTypeError", Undefined)}
        \cup {Err("SecEdgarApiError", st) : st \in {Undefined, 408, 500}}
        \cup {Err("RequestError", st) :
                 st \in {Undefined, 0, 400, 403, 408, 429, 499, 500, 503, 599}}

\* One error and one attempt number are handed to the ErrorHandler.
InitError ==
    /\ now = StartNow
    /\ store = NewCache
    /\ options = CacheOptions(Undefined, Undefined)
    /\ \E error \in Errors, attempt \in 0..MaxAttempt :
           scope = [error |-> error, attempt |-> attempt]
    /\ lastOp = NoOp
    /\ useClock = 0
    /\ lastUse = [k \in Keys |-> 0]
    /\ setAt = [k \in Keys |-> 0]
    /\ ttlGiven = [k \in Keys |-> 0]
    /\ NoHttp

IsRetryable ==
    /\ lastOp' = [NoOp EXCEPT !.op = "isRetryable",
                              !.result = IF isRetryable(scope.error)
                                         THEN "true" ELSE "false"]
    /\ UNCHANGED <<now, store, options, scope, useClock, lastUse, setAt, ttlGiven,
                   httpVars>>

GetRetryDelay ==
    /\ lastOp' = [NoOp EXCEPT !.op = "getRetryDelay",
                              !.result = getRetryDelay(scope.error, scope.attempt)]
    /\ UNCHANGED <<now, store, options, scope, useClock, lastUse, setAt, ttlGiven,
                   httpVars>>

NextError == IsRetryable \/ GetRetryDelay

ErrorSpec == InitError /\ [][NextError]_vars

(* --------------------- operations on an HttpClient -------------------- *)

Urls == {"u1", "u2"}
Bodies == {Null, "v1"}
Statuses == {400, 401, 404, 408, 429, 500, 503}
Outcomes ==
    [kind : {"ok"}, body : Bodies] \cup [kind : {"http"}, status : Statuses]
        \cup [kind : {"abort", "net", "other"}]

\* RequestCache.get / set through MultiLevelCache, which has no persistent level.
RequestCacheGet(S, url, t) == CacheGet(S, generateRequestKey(url, "undefined"), t)
RequestCacheSet(S, opts, url, response, t) ==
    CacheSet(S, opts, generateRequestKey(url, "undefined"), response, Undefined, t)

\* The constructor's choice of cache: false, absent (the default options) or given.
ClientCacheOptions(cache) ==
    CASE cache = "absent" -> CacheOptions(DefaultCacheTtl, DefaultCacheMaxSize)
      [] cache = "small" -> CacheOptions(MaxTtl + 1, 1)
      [] OTHER -> CacheOptions(Undefined, Undefined)

InitClient(delays, retries, caches, sc) ==
    /\ now = StartNow
    /\ store = NewCache
    /\ \E d \in delays, r \in retries, c \in caches :
           /\ client = HttpClient(d, r, Undefined, c # "false")
           /\ options = ClientCacheOptions(c)
    /\ scope = sc
    /\ lastOp = NoOp
    /\ useClock = 0
    /\ lastUse = [k \in Keys |-> 0]
    /\ setAt = [k \in Keys |-> 0]
    /\ ttlGiven = [k \in Keys |-> 0]
    /\ lastRequestTime = 0
    /\ calls = [c \in sc.callers |-> IdleCall]
    /\ started = 0
    /\ lastDispatch = Undefined
    /\ lastGap = Undefined

\* get(url, {skipCache}) up to the retry loop: the cache lookup.
HttpGet(c, url, skipCache) ==
    /\ calls[c].pc = "idle"
    /\ started < scope.gets
    /\ started' = started + 1
    /\ IF client.cache /\ ~skipCache
       THEN LET r == RequestCacheGet(store, url, now)
            IN  /\ store' = r.S
                /\ calls' = [calls EXCEPT ![c] =
                       IF r.result # Null
                       THEN [IdleCall EXCEPT !.pc = "done", !.url = url,
                                             !.result = r.result]
                       ELSE [IdleCall EXCEPT !.pc = "loop", !.url = url]]
       ELSE /\ store' = store
            /\ calls' = [calls EXCEPT ![c] =
                   [IdleCall EXCEPT !.pc = "loop", !.url = url,
                                    !.skipCache = skipCache]]
    /\ UNCHANGED <<now, options, scope, cacheBook, client, lastRequestTime,
                   lastDispatch, lastGap>>

\* The fetch of one attempt begins: lastRequestTime = Date.now(), then fetch().
Dispatch(c) ==
    /\ lastRequestTime' = now
    /\ calls' = [calls EXCEPT ![c].pc = "fetch", ![c].fetchAt = now,
                              ![c].wakeAt = 0, ![c].fetches = @ + 1,
                              ![c].outcome = [kind |-> "pending"]]
    /\ lastDispatch' = now
    /\ lastGap' = IF lastDispatch = Undefined THEN Undefined ELSE now - lastDispatch

\* if (timeSinceLastRequest < this.rateLimitDelay)
TooSoonOrAt(timeSinceLastRequest, rateLimitDelay) == timeSinceLastRequest <= rateLimitDelay
TooSoon(timeSinceLastRequest, rateLimitDelay) == timeSinceLastRequest < rateLimitDelay

\* enforceRateLimit up to its await: sleep for the rest of the delay, or go on.
EnforceRateLimit(c) ==
    /\ calls[c].pc = "loop"
    /\ LET timeSinceLastRequest == now - lastRequestTime
       IN  IF TooSoon(timeSinceLastRequest, client.rateLimitDelay)
           THEN /\ calls' = [calls EXCEPT ![c].pc = "gate",
                                 ![c].wakeAt = now + (client.rateLimitDelay
                                                        - timeSinceLastRequest)]
                /\ UNCHANGED <<lastRequestTime, lastDispatch, lastGap>>
           ELSE Dispatch(c)
    /\ UNCHANGED <<now, store, options, scope, cacheBook, client, started>>

\* The sleep of enforceRateLimit is over.
GateWake(c) ==
    /\ calls[c].pc = "gate"
    /\ now >= calls[c].wakeAt
    /\ Dispatch(c)
    /\ UNCHANGED <<now, store, options, scope, cacheBook, client, started>>

\* The fetch of the attempt settles: the rest of the try block, or the catch block.
Respond(c, o) ==
    /\ calls[c].pc = "fetch"
    /\ o.kind = "abort" => now >= calls[c].fetchAt + client.timeout
    /\ IF o.kind = "ok"
       THEN /\ store' = IF client.cache
                        THEN RequestCacheSet(store, options, calls[c].url, o.body, now)
                        ELSE store
            /\ calls' = [calls EXCEPT ![c].pc = "done", ![c].result = o.body,
                                      ![c].outcome = o, ![c].fetchAt = 0,
                                      ![c].onlyTransient = FALSE]
       ELSE LET k == Catch(Raised(o))
                backoffTime == BackoffTime(calls[c].attempt)
            IN  /\ store' = store
                /\ calls' = [calls EXCEPT ![c] =
                       IF k.rethrow \/ LastAttempt(@.attempt, client.maxRetries)
                       THEN [@ EXCEPT !.pc = "failed", !.lastError = k.lastError,
                                      !.outcome = o, !.fetchAt = 0,
                                      !.onlyTransient = @ /\ TransientFailure(o)]
                       ELSE [@ EXCEPT !.pc = "backoff", !.lastError = k.lastError,
                                      !.outcome = o, !.fetchAt = 0,
                                      !.onlyTransient = @ /\ TransientFailure(o),
                                      !.backoffTime = backoffTime,
                                      !.wakeAt = now + backoffTime]]
    /\ UNCHANGED <<now, options, scope, cacheBook, client, lastRequestTime, started,
                   lastDispatch, lastGap>>

\* The backoff sleep is over: attempt++ and the loop goes on.
BackoffWake(c) ==
    /\ calls[c].pc = "backoff"
    /\ now >= calls[c].wakeAt
    /\ calls' = [calls EXCEPT ![c].pc = "loop", ![c].attempt = @ + 1,
                              ![c].wakeAt = 0]
    /\ UNCHANGED <<now, store, options, scope, cacheBook, client, lastRequestTime,
                   started, lastDispatch, lastGap>>

\* The caller takes the value or the error; it may call get() again.
Return(c) ==
    /\ calls[c].pc \in {"done", "failed"}
    /\ calls' = [calls EXCEPT ![c] = IdleCall]
    /\ UNCHANGED <<now, store, options, scope, cacheBook, client, lastRequestTime,
                   started, lastDispatch, lastGap>>

\* The instants at which a pending timer is due or a cached entry has expired.
Deadlines ==
    {calls[c].wakeAt : c \in {d \in DOMAIN calls : calls[d].pc \in {"gate", "backoff"}}}
        \cup {calls[c].fetchAt + client.timeout :
                 c \in {d \in DOMAIN calls : calls[d].pc = "fetch"}}
        \cup {store.cache[k].expiry + 1 :
                 k \in {j \in DOMAIN store.cache : store.cache[j].expiry # Undefined}}

\* The clock advances by one millisecond.
HttpTick ==
    /\ now < StartNow + HttpTicks
    /\ now' = now + 1
    /\ UNCHANGED <<store, options, scope, cacheBook, httpVars>>

\* The clock advances to the next deadline.
HttpJump ==
    /\ \E d \in Deadlines :
           /\ d > now
           /\ \A e \in Deadlines : e > now => d <= e
           /\ now' = d
    /\ UNCHANGED <<store, options, scope, cacheBook, httpVars>>

NextHttp ==
    \/ \E c \in scope.callers, url \in scope.urls, skipCache \in scope.skips :
           HttpGet(c, url, skipCache)
    \/ \E c \in scope.callers : EnforceRateLimit(c)
    \/ \E c \in scope.callers : GateWake(c)
    \/ \E c \in scope.callers, o \in Outcomes :
           /\ o.kind \in scope.kinds
           /\ o.kind = "http" => o.status \in scope.statuses
           /\ o.kind = "ok" => o.body \in scope.bodies
           /\ Respond(c, o)
    \/ \E c \in scope.callers : BackoffWake(c)
    \/ \E c \in scope.callers : Return(c)
    \/ HttpTick
    \/ HttpJump

\* Several callers share one client.
Init ==
    InitClient({Undefined, ShortDelay}, {1}, {"false"},
               [callers |-> 1..NumCallers, gets |-> MaxGets, urls |-> {"u1"},
                bodies |-> {"v1"}, skips |-> {FALSE}, kinds |-> {"ok", "http"},
                statuses |-> {503}])
Spec == Init /\ [][NextHttp]_vars

\* One caller and a response cache: gets that follow one another.
InitCached ==
    InitClient({Undefined}, {1}, {"absent", "small"},
               [callers |-> {1}, gets |-> MaxGets - 1, urls |-> {"u1"},
                bodies |-> Bodies, skips |-> BOOLEAN, kinds |-> {"ok", "http"},
                statuses |-> {503}])
CachedSpec == InitCached /\ [][NextHttp]_vars

\* One caller and no response cache: requests that follow one another.
InitSequential ==
    InitClient({Undefined, ShortDelay}, {1}, {"false"},
               [callers |-> {1}, gets |-> MaxGets, urls |-> {"u1"},
                bodies |-> {"v1"}, skips |-> {FALSE}, kinds |-> {"ok", "http"},
                statuses |-> {503}])
SequentialSpec == InitSequential /\ [][NextHttp]_vars

\* One caller, every status, and retry budgets up to MaxRetriesOpt.
InitRetry ==
    InitClient({Undefined}, {Undefined, 1, MaxRetriesOpt}, {"false"},
               [callers |-> {1}, gets |-> MaxGets - 1, urls |-> {"u1"},
                bodies |-> {"v1"}, skips |-> {FALSE},
                kinds |-> {"ok", "http", "abort", "net", "other"},
                statuses |-> Statuses])
RetrySpec == InitRetry /\ [][NextHttp]_vars

(* ------------------------- new EdgarClient(config) -------------------- *)

\* A user agent is given by its length; Undefined when it is not set.
MinUserAgentLength == 10
UserAgents == {Undefined, 0, MinUserAgentLength - 1, MinUserAgentLength,
               MinUserAgentLength + 1}

\* if (userAgent.length < 10)
ShorterThan9(userAgent) == userAgent < MinUserAgentLength - 1
TooShort(userAgent) == userAgent < MinUserAgentLength

\* No EdgarClient yet: config.userAgent and SEC_EDGAR_TOOLKIT_USER_AGENT are
\* chosen, and nobody can call get().
InitConstruct ==
    /\ now = StartNow
    /\ store = NewCache
    /\ options = CacheOptions(Undefined, Undefined)
    /\ \E userAgent \in UserAgents, env \in UserAgents :
           scope = [config |-> [userAgent |-> userAgent, maxRetries |-> 1],
                    env |-> env, callers |-> {}, gets |-> MaxGets - 1,
                    urls |-> {"u1"}, bodies |-> {"v1"}, skips |-> {FALSE},
                    kinds |-> {"ok", "http"}, statuses |-> {503}]
    /\ lastOp = NoOp
    /\ useClock = 0
    /\ lastUse = [k \in Keys |-> 0]
    /\ setAt = [k \in Keys |-> 0]
    /\ ttlGiven = [k \in Keys |-> 0]
    /\ NoHttp

\* EdgarClient.constructor: throws InvalidUserAgentError, or creates the
\* HttpClient that the endpoint modules share.
Construct ==
    /\ lastOp.op = "new"
    /\ LET userAgent == Or(scope.config.userAgent, scope.env)
       IN  IF userAgent = Undefined \/ userAgent = 0 \/ TooShort(userAgent)
           THEN /\ lastOp' = [NoOp EXCEPT !.op = "construct",
                                          !.result = "InvalidUserAgentError"]
                /\ UNCHANGED <<options, scope, client, calls>>
           ELSE /\ lastOp' = [NoOp EXCEPT !.op = "construct", !.result = "EdgarClient"]
                /\ client' = HttpClient(Undefined, scope.config.maxRetries,
                                        Undefined, TRUE)
                /\ options' = ClientCacheOptions("absent")
                /\ scope' = [scope EXCEPT !.callers = {1}]
                /\ calls' = [c \in {1} |-> IdleCall]
    /\ UNCHANGED <<now, store, useClock, lastUse, setAt, ttlGiven, lastRequestTime,
                   started, lastDispatch, lastGap>>

NextConstruct == Construct \/ NextHttp

ConstructSpec == InitConstruct /\ [][NextConstruct]_vars

(* ---------------- FilingsEndpoints.getCompanySubmissions -------------- *)

MaxFilings == 3

\* A date string YYYY-MM-DD is the sequence of its fields; the empty
\* sequence is the empty (or absent) string.
Dates == {<<2022, 12, 31>>, <<2023, 1, 1>>, <<2023, 12, 31>>}
Forms == {"10-K", "8-K"}

\* a < b on strings: the first differing position decides, a prefix is less.
RECURSIVE LessOrEqual(_, _)
LessOrEqual(a, b) ==
    IF a = <<>> \/ b = <<>> THEN a = <<>>
    ELSE Head(a) < Head(b) \/ (Head(a) = Head(b) /\ LessOrEqual(Tail(a), Tail(b)))
RECURSIVE Less(_, _)
Less(a, b) ==
    IF a = <<>> \/ b = <<>> THEN a = <<>> /\ b # <<>>
    ELSE Head(a) < Head(b) \/ (Head(a) = Head(b) /\ Less(Tail(a), Tail(b)))

\* FilingsEndpoints.filterSubmissions for a response that has filings.recent,
\* the record of its parallel arrays.
filterSubmissions(recent, opts) ==
    LET all == [i \in 1..Len(recent.accessionNumber) |-> i]
        OfType(i) == recent.form[i] = opts.submissionType
        InRange(i) ==
            LET filingDate == recent.filingDate[i]
            IN  /\ ~(opts.fromDate # <<>> /\ Less(filingDate, opts.fromDate))
                /\ ~(opts.toDate # <<>> /\ Less(opts.toDate, filingDate))
        byType == IF opts.submissionType # "" THEN SelectSeq(all, OfType) ELSE all
        indices == IF opts.fromDate # <<>> \/ opts.toDate # <<>>
                   THEN SelectSeq(byType, InRange) ELSE byType
    IN  [key \in DOMAIN recent |-> [j \in 1..Len(indices) |-> recent[key][indices[j]]]]

\* The response of the submissions endpoint and the options of the call.
InitFilter ==
    /\ now = StartNow
    /\ store = NewCache
    /\ options = CacheOptions(Undefined, Undefined)
    /\ \E n \in 0..MaxFilings :
         \E form \in [1..n -> Forms], filingDate \in [1..n -> Dates],
            submissionType \in {"", "10-K"},
            fromDate \in {<<>>} \cup Dates, toDate \in {<<>>} \cup Dates :
             scope = [recent |-> [accessionNumber |-> [i \in 1..n |-> i],
                                  form |-> form, filingDate |-> filingDate],
                      options |-> [submissionType |-> submissionType,
                                   fromDate |-> fromDate, toDate |-> toDate]]
    /\ lastOp = NoOp
    /\ useClock = 0
    /\ lastUse = [k \in Keys |-> 0]
    /\ setAt = [k \in Keys |-> 0]
    /\ ttlGiven = [k \in Keys |-> 0]
    /\ NoHttp

\* getCompanySubmissions once httpClient.get(url) has returned the response.
GetCompanySubmissions ==
    /\ lastOp.op = "new"
    /\ LET opts == scope.options
           filtered == opts.submissionType # "" \/ opts.fromDate # <<>>
                           \/ opts.toDate # <<>>
       IN  lastOp' = [NoOp EXCEPT !.op = "getCompanySubmissions",
                                  !.result = IF filtered
                                             THEN filterSubmissions(scope.recent, opts)
                                             ELSE scope.recent]
    /\ UNCHANGED <<now, store, options, scope, useClock, lastUse, setAt, ttlGiven,
                   httpVars>>

NextFilter == GetCompanySubmissions

FilterSpec == InitFilter /\ [][NextFilter]_vars

(* ----------------- CompanyQueryBuilder.lookup / batchLookup ----------- *)

MaxBatch == 2

\* The ticker directory the SEC serves, and null in place of a company.
Directory == {[ticker |-> "AAPL", cik_str |-> "0000320193"]}
NullCompany == [ticker |-> "", cik_str |-> ""]

\* Identifiers handed to lookup: typeof, the text, and whether /^\d+$/ matches.
Identifiers ==
    {[type |-> "string", text |-> "AAPL", digits |-> FALSE],
     [type |-> "string", text |-> "aapl", digits |-> FALSE],
     [type |-> "string", text |-> "ZZZZ", digits |-> FALSE],
     [type |-> "string", text |-> "320193", digits |-> TRUE],
     [type |-> "number", text |-> "320193", digits |-> TRUE],
     [type |-> "string", text |-> "999", digits |-> TRUE]}

\* String.prototype.toUpperCase and padStart(10, '0') on the texts above.
toUpperCase(text) == IF text = "aapl" THEN "AAPL" ELSE text
padStart10(text) ==
    CASE text = "320193" -> "0000320193"
      [] text = "999" -> "0000000999"
      [] OTHER -> "000000" \o text

\* A settled promise.
Fulfilled(value) == [status |-> "fulfilled", value |-> value, reason |-> NoError]
Rejected(reason) == [status |-> "rejected", value |-> NullCompany, reason |-> reason]

\* CompanyEndpoints.getCompanyByTicker / getCompanyByCik on the directory.
getCompanyByTicker(tickers, ticker) ==
    LET found == {company \in tickers : toUpperCase(company.ticker) = toUpperCase(ticker)}
    IN  IF found = {} THEN NullCompany ELSE CHOOSE company \in found : TRUE
getCompanyByCik(tickers, cik) ==
    LET found == {company \in tickers : company.cik_str = padStart10(cik)}
    IN  IF found = {} THEN NullCompany ELSE CHOOSE company \in found : TRUE

\* The catch block of lookup: console.warn and return null.
lookupRethrow(error) == Rejected(error)
lookupCatch(error) == Fulfilled(NullCompany)

\* Promise.all over the settled lookups.
PromiseAll(promises) ==
    IF \E i \in DOMAIN promises : promises[i].status = "rejected"
    THEN [status |-> "rejected", value |-> <<>>]
    ELSE [status |-> "fulfilled", value |-> [i \in DOMAIN promises |-> promises[i].value]]

IdleLookup == [pc |-> "start", promise |-> Fulfilled(NullCompany), failed |-> FALSE]

\* batchLookup(identifiers) has mapped every identifier to a lookup call;
\* the endpoint's in-memory copy of the directory is not loaded yet.
InitLookup ==
    /\ now = StartNow
    /\ store = NewCache
    /\ options = CacheOptions(Undefined, Undefined)
    /\ \E n \in 0..MaxBatch : \E identifiers \in [1..n -> Identifiers] :
           /\ scope = [identifiers |-> identifiers]
           /\ calls = [i \in 1..n |-> IdleLookup]
    /\ lastOp = NoOp
    /\ useClock = 0
    /\ lastUse = [k \in Keys |-> 0]
    /\ setAt = [k \in Keys |-> 0]
    /\ ttlGiven = [k \in Keys |-> 0]
    /\ client = [companyTickersCache |-> {}, loaded |-> FALSE]
    /\ lastRequestTime = 0
    /\ started = 0
    /\ lastDispatch = Undefined
    /\ lastGap = Undefined

\* The search of lookup once the directory is at hand: the ticker first for
\* a string that is not all digits, then the CIK.
Resolve(tickers, identifier) ==
    LET byTicker == IF identifier.type = "string" /\ ~identifier.digits
                    THEN getCompanyByTicker(tickers, identifier.text)
                    ELSE NullCompany
    IN  IF byTicker # NullCompany THEN byTicker
        ELSE getCompanyByCik(tickers, identifier.text)

\* lookup(identifier) up to the first await of getCompanyTickers: the
\* directory is fetched when the in-memory copy is not set.
Lookup(i) ==
    /\ calls[i].pc = "start"
    /\ calls' = [calls EXCEPT ![i] =
           IF client.loaded
           THEN [@ EXCEPT !.pc = "done",
                          !.promise = Fulfilled(Resolve(client.companyTickersCache,
                                                        scope.identifiers[i]))]
           ELSE [@ EXCEPT !.pc = "get"]]
    /\ UNCHANGED <<now, store, options, scope, cacheBook, client, lastRequestTime,
                   started, lastDispatch, lastGap>>

\* httpClient.get of the directory settles for lookup i: the copy is set and
\* the search goes on, or the error lands in the catch block.
LookupGetSettles(i, ok) ==
    /\ calls[i].pc = "get"
    /\ IF ok
       THEN /\ client' = [companyTickersCache |-> Directory, loaded |-> TRUE]
            /\ calls' = [calls EXCEPT ![i].pc = "done",
                              ![i].promise = Fulfilled(Resolve(Directory,
                                                               scope.identifiers[i]))]
       ELSE /\ client' = client
            /\ calls' = [calls EXCEPT ![i].pc = "done", ![i].failed = TRUE,
                              ![i].promise = lookupCatch(Err("NetworkError", Undefined))]
    /\ UNCHANGED <<now, store, options, scope, cacheBook, lastRequestTime,
                   started, lastDispatch, lastGap>>

\* Every lookup has settled: Promise.all settles batchLookup.
BatchSettles ==
    /\ lastOp.op = "new"
    /\ \A i \in DOMAIN calls : calls[i].pc = "done"
    /\ lastOp' = [NoOp EXCEPT !.op = "batchLookup",
                              !.result = PromiseAll([i \in DOMAIN calls |->
                                                        calls[i].promise])]
    /\ UNCHANGED <<now, store, options, scope, useClock, lastUse, setAt, ttlGiven,
                   httpVars>>

NextLookup ==
    \/ \E i \in DOMAIN calls : Lookup(i)
    \/ \E i \in DOMAIN calls, ok \in BOOLEAN : LookupGetSettles(i, ok)
    \/ BatchSettles

LookupSpec == InitLookup /\ [][NextLookup]_vars

(* ------------------------ new OwnershipFormParser --------------------- *)

\* The content handed to the constructor: something XMLParser.parse throws
\* on (not a string or Buffer), text with no elements, or an XML document
\* given by the children of its root or of its ownershipDocument element;
\* "undefined" stands for a child that is not there.
FormDocuments ==
    [kind : {"throws", "text"}]
        \cup [kind : {"xml"}, wrapped : BOOLEAN,
              documentType : {"undefined", "", "3", "4", "5", "3/A", "4/A"},
              schemaVersion : {"undefined", "", "X0306"},
              periodOfReport : {"undefined", "2024-01-15"}]

\* XMLParser.parse: the object tree, here the element that holds the fields.
NoFields ==
    [documentType |-> "undefined", schemaVersion |-> "undefined",
     periodOfReport |-> "undefined"]
XMLParse(content) ==
    IF content.kind = "text" THEN [wrapped |-> FALSE, fields |-> NoFields]
    ELSE [wrapped |-> content.wrapped,
          fields |-> [documentType |-> content.documentType,
                      schemaVersion |-> content.schemaVersion,
                      periodOfReport |-> content.periodOfReport]]

\* findNestedValue(doc, [key]): the property, or null when there is none.
findNestedValue(doc, key) == IF doc[key] # "undefined" THEN doc[key] ELSE Null
\* A value is truthy: neither null nor the empty string.
Truthy(value) == value # Null /\ value # ""

\* OwnershipFormParser.extractFormType: the form type, or the error thrown.
extractFormTypeAssume4(root) ==
    LET documentType == findNestedValue(root.fields, "documentType")
    IN  IF Truthy(documentType) THEN documentType ELSE "4"
extractFormType(root) ==
    LET doc == root.fields
        documentType == findNestedValue(doc, "documentType")
        schemaVersion == findNestedValue(doc, "schemaVersion")
    IN  IF Truthy(documentType) THEN documentType
        ELSE IF Truthy(schemaVersion) THEN "4"
        ELSE "OwnershipFormParseError"

InitParser ==
    /\ now = StartNow
    /\ store = NewCache
    /\ options = CacheOptions(Undefined, Undefined)
    /\ \E content \in FormDocuments : scope = [xmlContent |-> content]
    /\ lastOp = NoOp
    /\ useClock = 0
    /\ lastUse = [k \in Keys |-> 0]
    /\ setAt = [k \in Keys |-> 0]
    /\ ttlGiven = [k \in Keys |-> 0]
    /\ NoHttp

\* OwnershipFormParser.constructor: lastOp.key is the formType of the new
\* parser, lastOp.result the error thrown instead.
ConstructParser ==
    /\ lastOp.op = "new"
    /\ LET formType == IF scope.xmlContent.kind = "throws"
                       THEN "OwnershipFormParseError"
                       ELSE extractFormType(XMLParse(scope.xmlContent))
       IN  lastOp' = IF formType = "OwnershipFormParseError"
                     THEN [NoOp EXCEPT !.op = "construct", !.result = formType]
                     ELSE [NoOp EXCEPT !.op = "construct", !.key = formType,
                                       !.stored = TRUE]
    /\ UNCHANGED <<now, store, options, scope, useClock, lastUse, setAt, ttlGiven,
                   httpVars>>

\* parseDocumentInfo() on a constructed parser: formType is the field.
ParseDocumentInfo ==
    /\ lastOp.op \in {"construct", "parseDocumentInfo"}
    /\ lastOp.stored
    /\ lastOp' = [lastOp EXCEPT !.op = "parseDocumentInfo", !.result = lastOp.key]
    /\ UNCHANGED <<now, store, options, scope, useClock, lastUse, setAt, ttlGiven,
                   httpVars>>

NextParser == ConstructParser \/ ParseDocumentInfo

ParserSpec == InitParser /\ [][NextParser]_vars

(* ----------------------- CompanyFilingBuilder.fetch ------------------- *)

\* The settings of a builder: formTypes(forms) called or not, since(date),
\* until(date) (<<>> when not called) and recent(count) (Undefined when not).
BuilderSettings ==
    [formTypes : {[given |-> FALSE, forms |-> {}], [given |-> TRUE, forms |-> {"10-K"}],
                  [given |-> TRUE, forms |-> Forms]},
     since : {<<>>, <<2023, 1, 1>>},
     until : {<<>>, <<2023, 1, 1>>},
     limit : {Undefined, 0, 1, 2}]

\* The for loop of fetch from index i on, filings holding the results so far.
RECURSIVE fetchLoop(_, _, _, _)
fetchLoop(recent, builder, i, filings) ==
    IF i > Len(recent.accessionNumber) THEN filings
    ELSE IF i > Len(recent.form) \/ i > Len(recent.filingDate) THEN filings
    ELSE IF builder.formTypes.given /\ recent.form[i] \notin builder.formTypes.forms
    THEN fetchLoop(recent, builder, i + 1, filings)
    ELSE LET filing == [accessionNumber |-> recent.accessionNumber[i],
                        formType |-> recent.form[i],
                        filingDate |-> recent.filingDate[i]]
             pushed == Append(filings, filing)
         IN  IF builder.limit # Undefined /\ builder.limit # 0
                 /\ Len(pushed) >= builder.limit
             THEN pushed
             ELSE fetchLoop(recent, builder, i + 1, pushed)

\* A builder for a company given by its 10-character CIK, and the
\* submissions feed that getCompanySubmissions returns for it.
InitFetch ==
    /\ now = StartNow
    /\ store = NewCache
    /\ options = CacheOptions(Undefined, Undefined)
    /\ \E n \in 0..MaxFilings :
         \E form \in [1..n -> Forms], filingDate \in [1..n -> Dates],
            builder \in BuilderSettings :
             scope = [recent |-> [accessionNumber |-> [i \in 1..n |-> i],
                                  form |-> form, filingDate |-> filingDate],
                      builder |-> builder]
    /\ lastOp = NoOp
    /\ useClock = 0
    /\ lastUse = [k \in Keys |-> 0]
    /\ setAt = [k \in Keys |-> 0]
    /\ ttlGiven = [k \in Keys |-> 0]
    /\ NoHttp

\* fetch() once getCompanySubmissions(cik) has returned the feed.
Fetch ==
    /\ lastOp.op = "new"
    /\ lastOp' = [NoOp EXCEPT !.op = "fetch",
                              !.result = fetchLoop(scope.recent, scope.builder, 1, <<>>)]
    /\ UNCHANGED <<now, store, options, scope, useClock, lastUse, setAt, ttlGiven,
                   httpVars>>

NextFetch == Fetch

FetchSpec == InitFetch /\ [][NextFetch]_vars

(* ------------------ CompanyEndpoints.getCompanyTickers ---------------- *)

\* `${SEC_BASE_URL}/files/company_tickers.json`
TickersUrl == "u1"

\* A CompanyEndpoints over an HttpClient with or without a response cache.
\* lastOp holds the endpoint: its companyTickersCache field, and of the
\* latest getCompanyTickers call its argument, how it ended (returned or
\* threw), what it returned and how many requests it dispatched.
NoTickers ==
    [op |-> "new", companyTickersCache |-> Null, forceRefresh |-> FALSE,
     ended |-> "", result |-> Null, fetches |-> 0]

InitTickers ==
    /\ now = StartNow
    /\ store = NewCache
    /\ \E c \in {"absent", "false"} :
           /\ client = HttpClient(Undefined, 1, Undefined, c # "false")
           /\ options = ClientCacheOptions(c)
    /\ scope = [callers |-> {1}, gets |-> MaxGets, urls |-> {TickersUrl},
                bodies |-> {"v1"}, skips |-> {FALSE}, kinds |-> {"ok", "http"},
                statuses |-> {503}]
    /\ lastOp = NoTickers
    /\ useClock = 0
    /\ lastUse = [k \in Keys |-> 0]
    /\ setAt = [k \in Keys |-> 0]
    /\ ttlGiven = [k \in Keys |-> 0]
    /\ lastRequestTime = 0
    /\ calls = [c \in {1} |-> IdleCall]
    /\ started = 0
    /\ lastDispatch = Undefined
    /\ lastGap = Undefined

\* getCompanyTickers(forceRefresh) up to its first suspension: the in-memory
\* copy is returned, or httpClient.get(url) is called without options and
\* answers from the response cache or enters its retry loop.
GetCompanyTickers(c, forceRefresh) ==
    /\ calls[c].pc = "idle"
    /\ started < scope.gets
    /\ started' = started + 1
    /\ IF lastOp.companyTickersCache = Null \/ forceRefresh
       THEN IF client.cache
            THEN LET r == RequestCacheGet(store, TickersUrl, now)
                 IN  /\ store' = r.S
                     /\ IF r.result # Null
                        THEN /\ calls' = calls
                             /\ lastOp' = [op |-> "getCompanyTickers",
                                           companyTickersCache |-> r.result,
                                           forceRefresh |-> forceRefresh,
                                           ended |-> "returned",
                                           result |-> r.result, fetches |-> 0]
                        ELSE /\ calls' = [calls EXCEPT ![c] =
                                    [IdleCall EXCEPT !.pc = "loop", !.url = TickersUrl]]
                             /\ lastOp' = [lastOp EXCEPT !.op = "getCompanyTickers",
                                               !.forceRefresh = forceRefresh,
                                               !.ended = "", !.result = Null,
                                               !.fetches = 0]
            ELSE /\ store' = store
                 /\ calls' = [calls EXCEPT ![c] =
                        [IdleCall EXCEPT !.pc = "loop", !.url = TickersUrl]]
                 /\ lastOp' = [lastOp EXCEPT !.op = "getCompanyTickers",
                                   !.forceRefresh = forceRefresh,
                                   !.ended = "", !.result = Null, !.fetches = 0]
       ELSE /\ store' = store
            /\ calls' = calls
            /\ lastOp' = [lastOp EXCEPT !.op = "getCompanyTickers",
                              !.forceRefresh = forceRefresh,
                              !.ended = "returned",
                              !.result = lastOp.companyTickersCache,
                              !.fetches = 0]
    /\ UNCHANGED <<now, options, scope, useClock, lastUse, setAt, ttlGiven, client,
                   lastRequestTime, lastDispatch, lastGap>>

\* The awaited get() settles: its value is assigned to companyTickersCache
\* and returned, or its error leaves getCompanyTickers.
TickersSettle(c) ==
    /\ calls[c].pc \in {"done", "failed"}
    /\ calls' = [calls EXCEPT ![c] = IdleCall]
    /\ lastOp' = IF calls[c].pc = "done"
                 THEN [lastOp EXCEPT !.companyTickersCache = calls[c].result,
                                     !.ended = "returned",
                                     !.result = calls[c].result,
                                     !.fetches = calls[c].fetches]
                 ELSE [lastOp EXCEPT !.ended = "threw",
                                     !.fetches = calls[c].fetches]
    /\ UNCHANGED <<now, store, options, scope, useClock, lastUse, setAt, ttlGiven,
                   client, lastRequestTime, started, lastDispatch, lastGap>>

NextTickers ==
    \/ \E c \in scope.callers, forceRefresh \in BOOLEAN :
           GetCompanyTickers(c, forceRefresh)
    \/ \E c \in scope.callers : EnforceRateLimit(c)
    \/ \E c \in scope.callers : GateWake(c)
    \/ \E c \in scope.callers, o \in Outcomes :
           /\ o.kind \in scope.kinds
           /\ o.kind = "http" => o.status \in scope.statuses
           /\ o.kind = "ok" => o.body \in scope.bodies
           /\ Respond(c, o)
    \/ \E c \in scope.callers : BackoffWake(c)
    \/ \E c \in scope.callers : TickersSettle(c)
    \/ HttpTick
    \/ HttpJump

TickersSpec == InitTickers /\ [][NextTickers]_vars

(* ----------------------- ItemExtractor.extractItems ------------------- *)

MaxBody == 3
MaxTocEntries == 2

\* The head of each registry of item definitions, in registry order.
FORM_10K_ITEMS ==
    <<[number |-> "1", title |-> "Business"],
      [number |-> "1A", title |-> "Risk Factors"],
      [number |-> "2", title |-> "Properties"]>>
FORM_10Q_ITEMS ==
    <<[number |-> "1", title |-> "Financial Statements"],
      [number |-> "2", title |-> "Management's Discussion and Analysis"],
      [number |-> "1", title |-> "Legal Proceedings"]>>
FORM_8K_ITEMS ==
    <<[number |-> "1.01", title |-> "Entry into a Material Definitive Agreement"],
      [number |-> "2.02", title |-> "Results of Operations and Financial Condition"]>>
formItems(formType) ==
    CASE formType = "10-K" -> FORM_10K_ITEMS
      [] formType = "10-Q" -> FORM_10Q_ITEMS
      [] formType = "8-K" -> FORM_8K_ITEMS

\* The cleaned content is a sequence of pieces: the words TABLE OF CONTENTS,
\* the words PART I, an item heading "Item <number>. <title>", or running
\* text, short or long. Each piece has a width in characters.
Piece(kind) == [kind |-> kind, number |-> "", title |-> ""]
Heading(itemDef) == [kind |-> "heading", number |-> itemDef.number, title |-> itemDef.title]
TocWidth == 18
PartWidth == 7
HeadingWidth == 20
ShortTextWidth == 25
LongTextWidth == 600
Width(piece) ==
    CASE piece.kind = "toc" -> TocWidth
      [] piece.kind = "part" -> PartWidth
      [] piece.kind = "heading" -> HeadingWidth
      [] piece.kind = "short" -> ShortTextWidth
      [] OTHER -> LongTextWidth

\* The offset of piece i in the content; Offset(content, Len + 1) is content.length.
RECURSIVE Offset(_, _)
Offset(content, i) ==
    IF i <= 1 THEN 0 ELSE Offset(content, i - 1) + Width(content[i - 1])

\* The indices of a sequence that satisfy a test, in order.
Indices(content, kept) ==
    SelectSeq([i \in 1..Len(content) |-> i], LAMBDA i : i \in kept)

\* The item numbers that /Item\s+\d+[A-Z]?[.:]/ accepts, and those after
\* which /Item\s+1\./ matches.
PlainNumbers == {"1", "1A", "2"}
StartsWithOneDot == {"1", "1.01"}

\* extractTableOfContents: the item references between TABLE OF CONTENTS and
\* the first "Item 1." or "PART I " after it, each with its offset in that
\* stretch.
extractTableOfContents(content) ==
    LET IsEnd(j) == \/ content[j].kind = "part"
                    \/ content[j].kind = "heading" /\ content[j].number \in StartsWithOneDot
        starts == Indices(content, {i \in 1..Len(content) :
                      /\ content[i].kind = "toc"
                      /\ \E j \in (i + 1)..Len(content) : IsEnd(j)})
    IN  IF starts = <<>> THEN <<>>
        ELSE LET tocAt == starts[1]
                 end == CHOOSE j \in (tocAt + 1)..Len(content) :
                            IsEnd(j) /\ \A k \in (tocAt + 1)..(j - 1) : ~IsEnd(k)
                 listed == Indices(content, {k \in 1..Len(content) :
                               /\ tocAt < k /\ k < end
                               /\ content[k].kind = "heading"})
             IN  [n \in 1..Len(listed) |->
                     <<content[listed[n]].number,
                       Offset(content, listed[n]) - Offset(content, tocAt + 1)>>]

\* Math.max over the offsets of the TOC items.
RECURSIVE MaxOffset(_)
MaxOffset(tocItems) ==
    IF Len(tocItems) = 1 THEN tocItems[1][2]
    ELSE LET rest == MaxOffset(Tail(tocItems))
         IN  IF tocItems[1][2] > rest THEN tocItems[1][2] ELSE rest

TocBuffer == 500
isInToc(position, tocItems) ==
    IF tocItems = <<>> THEN FALSE
    ELSE position < MaxOffset(tocItems) + TocBuffer

\* The matches of the first pattern of an item definition that matches at
\* all: number and title, else the number alone.
matchAll(content, itemDef) ==
    LET titled == Indices(content, {i \in 1..Len(content) :
                      /\ content[i].kind = "heading"
                      /\ content[i].number = itemDef.number
                      /\ content[i].title = itemDef.title})
        numbered == Indices(content, {i \in 1..Len(content) :
                        /\ content[i].kind = "heading"
                        /\ content[i].number = itemDef.number})
    IN  IF titled # <<>> THEN titled ELSE numbered

\* The match an item is bound to.
RECURSIVE firstOutsideToc(_, _, _, _)
firstOutsideToc(content, rest, tocItems, default) ==
    IF rest = <<>> THEN default
    ELSE IF ~isInToc(Offset(content, Head(rest)), tocItems) THEN Head(rest)
    ELSE firstOutsideToc(content, Tail(rest), tocItems, default)
chooseMatch(content, matches, tocItems) ==
    IF Len(matches) > 1 /\ tocItems # <<>>
    THEN firstOutsideToc(content, Tail(matches), tocItems, matches[1])
    ELSE matches[1]

\* findItemEnd: the offset of the next heading /Item\s+\d+[A-Z]?[.:]\s*[A-Z]/
\* found from startPos + 10 on, else content.length.
SkipAhead == 10
findItemEnd(content, startPos) ==
    LET later == Indices(content, {j \in 1..Len(content) :
                     /\ content[j].kind = "heading"
                     /\ content[j].number \in PlainNumbers
                     /\ Offset(content, j) >= startPos + SkipAhead})
    IN  IF later # <<>> THEN Offset(content, later[1])
        ELSE Offset(content, Len(content) + 1)

\* extractItemsFromContent: the Map from item number to ExtractedItem after
\* the first d definitions; set() on a number already there replaces it.
RECURSIVE extractItemsFromContent(_, _, _, _)
extractItemsFromContent(content, itemDefinitions, tocItems, d) ==
    IF d = 0 THEN << >>
    ELSE LET items == extractItemsFromContent(content, itemDefinitions, tocItems, d - 1)
             itemDef == itemDefinitions[d]
             matches == matchAll(content, itemDef)
         IN  IF matches = <<>> THEN items
             ELSE LET startPos == Offset(content, chooseMatch(content, matches, tocItems))
                      extracted == [itemNumber |-> itemDef.number,
                                    title |-> itemDef.title,
                                    startPosition |-> startPos,
                                    endPosition |-> findItemEnd(content, startPos)]
                  IN  [n \in (DOMAIN items) \cup {itemDef.number} |->
                          IF n = itemDef.number THEN extracted ELSE items[n]]

\* postProcessItems: content of 50 characters or fewer becomes "" (the
\* text here never says "none" or "not applicable"). A content string is
\* given by the offsets it spans.
MinContent == 50
postProcessItems(items) ==
    [n \in DOMAIN items |->
        IF items[n].endPosition - items[n].startPosition > MinContent
        THEN <<items[n].startPosition, items[n].endPosition>>
        ELSE <<>>]

\* The documents: an optional table of contents (its words, perhaps PART I,
\* and up to MaxTocEntries item references) and then the body.
BodyPieces(formType) ==
    {Heading(formItems(formType)[d]) : d \in DOMAIN formItems(formType)}
        \cup {Piece("short"), Piece("long")}
TocPieces(formType) ==
    {Heading(formItems(formType)[d]) : d \in DOMAIN formItems(formType)}

InitExtract ==
    /\ now = StartNow
    /\ store = NewCache
    /\ options = CacheOptions(Undefined, Undefined)
    /\ \E formType \in {"10-K", "10-Q", "8-K"}, hasToc \in BOOLEAN, hasPart \in BOOLEAN,
          e \in 0..MaxTocEntries, b \in 1..MaxBody :
         \E entries \in [1..e -> TocPieces(formType)],
            body \in [1..b -> BodyPieces(formType)] :
             /\ ~hasToc => (e = 0 /\ ~hasPart)
             /\ LET toc == IF hasToc
                           THEN <<Piece("toc")>>
                                    \o (IF hasPart THEN <<Piece("part")>> ELSE <<>>)
                                    \o entries
                           ELSE <<>>
                IN  scope = [formType |-> formType, content |-> toc \o body,
                             tocLength |-> Len(toc)]
    /\ lastOp = NoOp
    /\ useClock = 0
    /\ lastUse = [k \in Keys |-> 0]
    /\ setAt = [k \in Keys |-> 0]
    /\ ttlGiven = [k \in Keys |-> 0]
    /\ NoHttp

\* extractItems(content, formType): lastOp.key keeps the Map of
\* ExtractedItems, lastOp.result is the record returned.
ExtractItems ==
    /\ lastOp.op = "new"
    /\ LET tocItems == extractTableOfContents(scope.content)
           itemDefinitions == formItems(scope.formType)
           items == extractItemsFromContent(scope.content, itemDefinitions, tocItems,
                                            Len(itemDefinitions))
       IN  lastOp' = [NoOp EXCEPT !.op = "extractItems", !.key = items,
                                  !.result = postProcessItems(items)]
    /\ UNCHANGED <<now, store, options, scope, useClock, lastUse, setAt, ttlGiven,
                   httpVars>>

NextExtract == ExtractItems

ExtractSpec == InitExtract /\ [][NextExtract]_vars

(* ------------------------------ claims -------------------------------- *)

\* C2: after any sequence of Cache operations the number of stored entries
\* never exceeds the configured maxSize.
C2_SizeWithinMaxSize == Size(store) <= options.maxSize

\* A set() of a new key into a full cache has just evicted an entry.
C2_Witness ==
    /\ lastOp.op = "set"
    /\ lastOp.evicted # {}
    /\ Size(store) = options.maxSize

\* C3: a set() of a new key into a cache that holds maxSize entries removes
\* exactly one entry, the one whose latest access (set or successful get)
\* is the oldest, and stores the new key.
C3_EvictsLeastRecentlyUsed ==
    [][(/\ lastOp'.op = "set"
        /\ Size(store) = options.maxSize
        /\ lastOp'.key \notin DOMAIN store.cache)
       => \E e \in DOMAIN store.cache :
              /\ DOMAIN store'.cache = ((DOMAIN store.cache) \ {e}) \cup {lastOp'.key}
              /\ \A o \in DOMAIN store.cache : lastUse[e] <= lastUse[o]]_vars

\* An eviction from a cache of capacity 2 after a successful get().
C3_Witness ==
    /\ lastOp.op = "set"
    /\ lastOp.evicted # {}
    /\ options.maxSize = 2
    /\ store.hits > 0

\* C4: a stored entry set with TTL T > 0 at time s is returned by get() and
\* reported by has() at every time <= s + T; later it is a miss, has() is
\* false and the access removes it. s is the time of the latest set.
C4_TtlExpiry ==
    [][\A k \in Keys :
         (/\ k \in DOMAIN store.cache
          /\ ttlGiven[k] > 0
          /\ lastOp'.key = k
          /\ lastOp'.op \in {"get", "has"})
         => IF now <= setAt[k] + ttlGiven[k]
            THEN /\ k \in DOMAIN store'.cache
                 /\ lastOp'.result = IF lastOp'.op = "get"
                                      THEN store.cache[k].data ELSE "true"
            ELSE /\ k \notin DOMAIN store'.cache
                 /\ lastOp'.result = IF lastOp'.op = "get" THEN Null ELSE "false"]_vars

\* A get() found a stored entry past its TTL, missed and removed it.
C4_Witness ==
    /\ lastOp.op = "get"
    /\ lastOp.stored
    /\ lastOp.result = Null
    /\ lastOp.key \notin DOMAIN store.cache

\* C1: no two fetch dispatches of one HttpClient begin less than
\* rateLimitDelay apart, whatever the interleaving of the get() calls.
C1_DispatchesRateLimited ==
    lastGap = Undefined \/ lastGap >= client.rateLimitDelay

\* The error a failed attempt is classified as, by its outcome.
ClassifiedError(o) ==
    CASE o.kind = "http" /\ o.status = 401 -> Err("AuthenticationError", 401)
      [] o.kind = "http" /\ o.status = 404 -> Err("NotFoundError", 404)
      [] o.kind = "http" /\ o.status = 429 -> Err("RateLimitError", 429)
      [] o.kind = "http" /\ o.status \notin {401, 404, 429} -> Err("RequestError", o.status)
      [] o.kind = "abort" -> Err("TimeoutError", Undefined)
      [] o.kind = "net" -> Err("NetworkError", Undefined)
      [] OTHER -> Err("Error", Undefined)

C6_ClientErrorNotRetried ==
    \A c \in DOMAIN calls :
        (/\ calls[c].outcome.kind = "http"
         /\ calls[c].outcome.status >= 400
         /\ calls[c].outcome.status < 500
         /\ calls[c].outcome.status \notin {408, 429})
        => /\ calls[c].pc = "failed"
           /\ calls[c].lastError = ClassifiedError(calls[c].outcome)
           /\ calls[c].attempt = 0 => (calls[c].fetches = 1 /\ calls[c].backoffTime = 0)

\* A first attempt answered 404 has failed the get().
C6_Witness ==
    \E c \in DOMAIN calls :
        /\ calls[c].outcome = [kind |-> "http", status |-> 404]
        /\ calls[c].pc = "failed"
        /\ calls[c].fetches = 1

\* C7: an attempt answered with HTTP 408 that is not the last of the budget
\* is followed by a backoff and a retry.
C7_Http408Retried ==
    \A c \in DOMAIN calls :
        (/\ calls[c].outcome = [kind |-> "http", status |-> 408]
         /\ calls[c].attempt < client.maxRetries)
        => calls[c].pc = "backoff"

\* C8: the backoff slept after an attempt answered with HTTP 429 is the
\* rate-limit delay of ErrorHandler.getRetryDelay, min(60000, 2^attempt * 5000),
\* which is longer than the backoff after another error at that attempt.
C8_RateLimitBackoff ==
    \A c \in DOMAIN calls :
        (calls[c].pc = "backoff" /\ calls[c].lastError.class = "RateLimitError")
        => /\ calls[c].backoffTime = getRetryDelay(calls[c].lastError, calls[c].attempt)
           /\ calls[c].backoffTime > BackoffTime(calls[c].attempt)

\* C9: every backoff sleep is 2^attempt * 1000 ms and none exceeds a fixed
\* cap, here the largest delay ErrorHandler.getRetryDelay ever returns.
C9_BackoffExponentialCapped ==
    \A c \in DOMAIN calls :
        calls[c].pc = "backoff"
        => /\ calls[c].backoffTime = Pow2(calls[c].attempt) * 1000
           /\ calls[c].backoffTime <= MaxRateLimitDelay

\* The request cache holds an entry for the URL that has not expired.
LiveEntry(url) ==
    LET key == <<url, "null">>
    IN  /\ key \in DOMAIN store.cache
        /\ store.cache[key].expiry # Undefined => now <= store.cache[key].expiry

\* C10: with caching on and skipCache not set, get(url) for a URL with a live
\* cached entry returns the cached value at once: no fetch is dispatched, no
\* gate or backoff is waited on, and lastRequestTime stays as it is.
C10_CacheHitNoNetwork ==
    [][\A c \in DOMAIN calls :
         (/\ calls[c].pc = "idle"
          /\ calls'[c].pc # "idle"
          /\ client.cache
          /\ ~calls'[c].skipCache
          /\ LiveEntry(calls'[c].url))
         => /\ calls'[c].pc = "done"
            /\ calls'[c].result = store.cache[<<calls'[c].url, "null">>].data
            /\ calls'[c].fetches = 0
            /\ lastRequestTime' = lastRequestTime
            /\ lastDispatch' = lastDispatch]_vars

\* The same for a cached value other than null.
C10_CacheHitNonNull ==
    [][\A c \in DOMAIN calls :
         (/\ calls[c].pc = "idle"
          /\ calls'[c].pc # "idle"
          /\ client.cache
          /\ ~calls'[c].skipCache
          /\ LiveEntry(calls'[c].url)
          /\ store.cache[<<calls'[c].url, "null">>].data # Null)
         => /\ calls'[c].pc = "done"
            /\ calls'[c].result = store.cache[<<calls'[c].url, "null">>].data
            /\ calls'[c].fetches = 0
            /\ lastRequestTime' = lastRequestTime
            /\ lastDispatch' = lastDispatch]_vars

\* The attempt of call c has just succeeded with a parsed body.
Succeeds(c) ==
    /\ calls[c].pc = "fetch"
    /\ calls'[c].pc = "done"
    /\ calls'[c].outcome.kind = "ok"

\* Call c has just started a get() that may use the cache, and the cache
\* holds a live entry for its URL.
StartsOnLiveEntry(c) ==
    /\ calls[c].pc = "idle"
    /\ calls'[c].pc # "idle"
    /\ client.cache
    /\ ~calls'[c].skipCache
    /\ LiveEntry(calls'[c].url)

\* C11: when an attempt of get(url) succeeds with parsed body B, the cache
\* holds B under the URL when get returns, whatever B is; and a later
\* get(url) that finds this entry live returns B with no fetch.
C11_SuccessCachedThenServed ==
    [][\A c \in DOMAIN calls :
         /\ (Succeeds(c) /\ client.cache)
            => LET key == <<calls[c].url, "null">>
               IN  /\ key \in DOMAIN store'.cache
                   /\ store'.cache[key].data = calls'[c].outcome.body
                   /\ calls'[c].result = calls'[c].outcome.body
         /\ StartsOnLiveEntry(c)
            => /\ calls'[c].pc = "done"
               /\ calls'[c].result = store.cache[<<calls'[c].url, "null">>].data
               /\ calls'[c].fetches = 0]_vars

\* The first half alone: every successful body, null included, is stored.
C11_SuccessStored ==
    [][\A c \in DOMAIN calls :
         (Succeeds(c) /\ client.cache)
         => LET key == <<calls[c].url, "null">>
            IN  /\ key \in DOMAIN store'.cache
                /\ store'.cache[key].data = calls'[c].outcome.body]_vars

\* C12: get() backs off and retries only after a timeout, a network error, a
\* rate-limit error or a 5xx/408 response; an attempt that raised any other
\* error (a body that is missing or not JSON, say) ends the get() there, and
\* when it was the first attempt it stays the only one, with no backoff.
C12_OtherErrorsPropagate ==
    \A c \in DOMAIN calls :
        /\ calls[c].pc = "backoff"
           => \/ calls[c].outcome.kind \in {"abort", "net"}
              \/ /\ calls[c].outcome.kind = "http"
                 /\ calls[c].outcome.status \in {408, 429} \/ calls[c].outcome.status >= 500
        /\ calls[c].outcome.kind = "other"
           => /\ calls[c].pc = "failed"
              /\ calls[c].attempt = 0 => (calls[c].fetches = 1 /\ calls[c].backoffTime = 0)

Survives(k) ==
    /\ (lastOp'.key = k /\ lastOp'.op \in {"get", "has"})
       => /\ k \in DOMAIN store'.cache
          /\ lastOp'.result = IF lastOp'.op = "get" THEN store.cache[k].data ELSE "true"
    /\ lastOp'.op = "cleanup" => k \in DOMAIN store'.cache

\* C14: an entry whose TTL, the override of set() or else the default of
\* the cache, is 0 or negative never expires: get() and has() find it at any
\* later time and cleanup() does not remove it.
C14_NonPositiveTtlNeverExpires ==
    [][\A k \in Keys :
         (k \in DOMAIN store.cache /\ ttlGiven[k] <= 0) => Survives(k)]_vars

\* The same for negative TTLs only.
C14_NegativeTtlNeverExpires ==
    [][\A k \in Keys :
         (k \in DOMAIN store.cache /\ ttlGiven[k] < 0) => Survives(k)]_vars

\* Key k is stored and its entry has not expired at time t.
StoredUnexpired(S, k, t) ==
    /\ k \in DOMAIN S.cache
    /\ S.cache[k].expiry = Undefined \/ t <= S.cache[k].expiry

\* C15: a get() of a stored unexpired key adds one to hits and leaves
\* misses, a get() of an absent or expired key adds one to misses and leaves
\* hits, no other operation changes either counter, and getStats() reports
\* these counters with hitRate hits / (hits + misses), 0 before any access.
C15_StatsCountGets ==
    [][/\ IF lastOp'.op = "get"
          THEN IF StoredUnexpired(store, lastOp'.key, now)
               THEN store'.hits = store.hits + 1 /\ store'.misses = store.misses
               ELSE store'.hits = store.hits /\ store'.misses = store.misses + 1
          ELSE store'.hits = store.hits /\ store'.misses = store.misses
       /\ LET stats == getStats(store')
              accesses == store'.hits + store'.misses
          IN  /\ stats.hits = store'.hits
              /\ stats.misses = store'.misses
              /\ stats.size = Cardinality(DOMAIN store'.cache)
              /\ IF accesses = 0
                 THEN stats.hitRate.num = 0
                 ELSE stats.hitRate.num * accesses = store'.hits * stats.hitRate.den]_vars

\* After a hit, a get() of an expired entry has been counted as a miss.
C15_Witness ==
    /\ lastOp.op = "get"
    /\ lastOp.stored
    /\ lastOp.result = Null
    /\ store.hits > 0
    /\ store.misses > 0

\* Two options objects are equal as values: they hold the same properties.
SameProperties(a, b) == {a[i] : i \in DOMAIN a} = {b[i] : i \in DOMAIN b}

\* C16: options objects that hold the same properties, in whatever insertion
\* order, give the same key, so a RequestCache.get(url, options) finds the
\* entry a RequestCache.set stored for the URL with equal options.
C16_KeyIgnoresInsertionOrder ==
    [][/\ \A a, b \in scope.objects, url \in scope.urls :
            SameProperties(a, b) => generateKeyObject(url, a) = generateKeyObject(url, b)
       /\ lastOp'.op = "get"
          => \A a \in scope.objects :
                 (/\ SameProperties(a, lastOp'.key.options)
                  /\ generateKeyObject(lastOp'.key.url, a) \in DOMAIN store.cache)
                 => lastOp'.result
                        = store.cache[generateKeyObject(lastOp'.key.url, a)].data]_vars

\* The same for options objects that are equal with their insertion order.
C16_KeySameOrder ==
    [][/\ \A a, b \in scope.objects, url \in scope.urls :
            a = b => generateKeyObject(url, a) = generateKeyObject(url, b)
       /\ lastOp'.op = "get"
          => \A a \in scope.objects :
                 (/\ a = lastOp'.key.options
                  /\ generateKeyObject(lastOp'.key.url, a) \in DOMAIN store.cache)
                 => lastOp'.result
                        = store.cache[generateKeyObject(lastOp'.key.url, a)].data]_vars

\* The delays the rate-limit schedule and the ordinary schedule are to give.
RateLimitSchedule(attempt) ==
    IF attempt >= 4 THEN 60000 ELSE <<5000, 10000, 20000, 40000>>[attempt + 1]
RetrySchedule(attempt) ==
    IF attempt >= 5 THEN 30000 ELSE <<1000, 2000, 4000, 8000, 16000>>[attempt + 1]

\* C17: getRetryDelay(error, attempt) is min(60000, 2^attempt * 5000) for a
\* RateLimitError and min(30000, 2^attempt * 1000) for any other error; it
\* does not decrease with attempt and never exceeds 60 s, respectively 30 s.
C17_RetryDelaySchedule ==
    lastOp.op = "getRetryDelay"
    => LET rateLimit == scope.error.class = "RateLimitError"
       IN  /\ lastOp.result = IF rateLimit THEN RateLimitSchedule(scope.attempt)
                                           ELSE RetrySchedule(scope.attempt)
           /\ lastOp.result <= IF rateLimit THEN 60000 ELSE 30000
           /\ scope.attempt > 0
              => lastOp.result >= getRetryDelay(scope.error, scope.attempt - 1)

\* The delay of a RateLimitError has reached its cap.
C17_Witness ==
    /\ lastOp.op = "getRetryDelay"
    /\ scope.error.class = "RateLimitError"
    /\ scope.attempt = 4
    /\ lastOp.result = MaxRateLimitDelay

OnOrBefore(a, b) ==
    \/ a[1] < b[1]
    \/ a[1] = b[1] /\ a[2] < b[2]
    \/ a[1] = b[1] /\ a[2] = b[2] /\ a[3] <= b[3]

\* C20: with submissionType, fromDate and toDate given, filings.recent of
\* the result holds exactly the entries of the response whose form is
\* submissionType and whose filingDate is in [fromDate, toDate], bounds
\* included, in their original order, and every parallel array is reduced
\* to the same entries.
C20_FilterSubmissions ==
    (/\ lastOp.op = "getCompanySubmissions"
     /\ scope.options.submissionType # ""
     /\ scope.options.fromDate # <<>>
     /\ scope.options.toDate # <<>>)
    => LET recent == scope.recent
           result == lastOp.result
           kept == {i \in 1..Len(recent.accessionNumber) :
                       /\ recent.form[i] = scope.options.submissionType
                       /\ OnOrBefore(scope.options.fromDate, recent.filingDate[i])
                       /\ OnOrBefore(recent.filingDate[i], scope.options.toDate)}
       IN  /\ DOMAIN result = DOMAIN recent
           /\ \A key \in DOMAIN result : Len(result[key]) = Cardinality(kept)
           /\ {result.accessionNumber[j] : j \in 1..Cardinality(kept)} = kept
           /\ \A j \in 1..Cardinality(kept) :
                  /\ j > 1 => result.accessionNumber[j - 1] < result.accessionNumber[j]
                  /\ \A key \in DOMAIN result :
                         result[key][j] = recent[key][result.accessionNumber[j]]

\* Of three filings the filter kept two and dropped one, and a kept one
\* was filed on fromDate itself.
C20_Witness ==
    /\ lastOp.op = "getCompanySubmissions"
    /\ scope.options.submissionType # ""
    /\ scope.options.fromDate # <<>>
    /\ scope.options.toDate # <<>>
    /\ Len(scope.recent.accessionNumber) = 3
    /\ Len(lastOp.result.accessionNumber) = 2
    /\ \E j \in 1..2 : lastOp.result.filingDate[j] = scope.options.fromDate

\* The company an identifier stands for, or null: AAPL in either case, or
\* its CIK 320193 as digits or as a number.
CompanyOf(identifier) ==
    IF identifier.text \in {"AAPL", "aapl", "320193"}
    THEN [ticker |-> "AAPL", cik_str |-> "0000320193"]
    ELSE NullCompany

\* C21: batchLookup never rejects; its result has one entry per identifier,
\* in order; the entry is null when the lookup of that identifier failed or
\* found nothing, and otherwise the identifier's company, whatever happened
\* to the other lookups.
C21_BatchIsolatesFailures ==
    lastOp.op = "batchLookup"
    => /\ lastOp.result.status = "fulfilled"
       /\ Len(lastOp.result.value) = Len(scope.identifiers)
       /\ \A i \in DOMAIN scope.identifiers :
              lastOp.result.value[i] = IF calls[i].failed THEN NullCompany
                                       ELSE CompanyOf(scope.identifiers[i])

\* A batch of two: the first lookup failed and the second found its company.
C21_Witness ==
    /\ lastOp.op = "batchLookup"
    /\ Len(scope.identifiers) = 2
    /\ calls[1].failed
    /\ lastOp.result.status = "fulfilled"
    /\ lastOp.result.value[1] = NullCompany
    /\ lastOp.result.value[2] # NullCompany

\* C22: a single lookup propagates the typed error: it rejects with
\* CompanyNotFoundError when the identifier is unknown, and with the typed
\* transport or HTTP error when the request underneath failed.
C22_LookupPropagatesTypedError ==
    \A i \in DOMAIN calls :
        calls[i].pc = "done"
        => /\ calls[i].failed
              => /\ calls[i].promise.status = "rejected"
                 /\ calls[i].promise.reason = Err("NetworkError", Undefined)
           /\ (~calls[i].failed /\ CompanyOf(scope.identifiers[i]) = NullCompany)
              => /\ calls[i].promise.status = "rejected"
                 /\ calls[i].promise.reason.class = "CompanyNotFoundError"

\* The document has the field, with a value.
HasField(content, field) ==
    content.kind = "xml" /\ content[field] \notin {"undefined", ""}

\* C23: the constructor either throws OwnershipFormParseError or yields a
\* parser whose formType is the document's documentType when the document
\* has one, and '4' when it has none but has a schemaVersion; with neither,
\* as for text that is not XML, it throws, so that no accessor ever runs on
\* such input. A field counts as present when it has a value.
C23_FormTypeOrParseError ==
    LET content == scope.xmlContent
    IN  /\ lastOp.op = "construct"
           => IF HasField(content, "documentType")
              THEN lastOp.stored /\ lastOp.key = content.documentType
              ELSE IF HasField(content, "schemaVersion")
              THEN lastOp.stored /\ lastOp.key = "4"
              ELSE ~lastOp.stored /\ lastOp.result = "OwnershipFormParseError"
        /\ lastOp.op = "parseDocumentInfo"
           => /\ HasField(content, "documentType") \/ HasField(content, "schemaVersion")
              /\ lastOp.result = lastOp.key

\* Text that is not XML was rejected by the constructor.
C23_Witness ==
    /\ lastOp.op = "construct"
    /\ scope.xmlContent.kind = "text"
    /\ lastOp.result = "OwnershipFormParseError"

\* The filings of the result keep the order of the feed.
InFeedOrder(filings) ==
    \A j \in 2..Len(filings) : filings[j - 1].accessionNumber < filings[j].accessionNumber

\* C24: every filing fetch() returns satisfies every filter set on the
\* builder: its form is one of formTypes, its date is on or after since and
\* on or before until, and there are at most recent(count) of them, in the
\* order of the feed.
C24_FetchAppliesEveryFilter ==
    lastOp.op = "fetch"
    => LET builder == scope.builder
           filings == lastOp.result
       IN  /\ \A j \in DOMAIN filings :
                  /\ builder.formTypes.given
                         => filings[j].formType \in builder.formTypes.forms
                  /\ builder.since # <<>>
                         => OnOrBefore(builder.since, filings[j].filingDate)
                  /\ builder.until # <<>>
                         => OnOrBefore(filings[j].filingDate, builder.until)
           /\ builder.limit # Undefined => Len(filings) <= builder.limit
           /\ InFeedOrder(filings)

\* The form filter and a positive count alone.
C24_FormTypesAndCount ==
    lastOp.op = "fetch"
    => LET builder == scope.builder
           filings == lastOp.result
       IN  /\ \A j \in DOMAIN filings :
                  builder.formTypes.given
                      => filings[j].formType \in builder.formTypes.forms
           /\ (builder.limit # Undefined /\ builder.limit > 0)
                  => Len(filings) <= builder.limit
           /\ InFeedOrder(filings)

\* The index of the piece that starts at an offset.
PieceAt(content, position) ==
    CHOOSE i \in 1..Len(content) : Offset(content, i) = position

\* The matches of an item definition that lie after the table of contents
\* (all of them when the document has none).
MatchesAfterToc(content, itemDef) ==
    SelectSeq(matchAll(content, itemDef), LAMBDA i : i > scope.tocLength)

\* C25: extractItems binds each item to its first heading match after the
\* end of the table of contents, never to one inside it; without a table of
\* contents it binds the item to its first match.
C25_BindsAfterToc ==
    lastOp.op = "extractItems" =>
        \A n \in DOMAIN lastOp.key :
            LET after == MatchesAfterToc(scope.content,
                             [number |-> n, title |-> lastOp.key[n].title])
            IN  /\ after # <<>>
                /\ lastOp.key[n].startPosition = Offset(scope.content, after[1])

\* The offset of the first item heading after an offset, else the length
\* of the content.
NextHeading(content, position) ==
    LET later == Indices(content, {j \in 1..Len(content) :
                     content[j].kind = "heading" /\ Offset(content, j) > position})
    IN  IF later # <<>> THEN Offset(content, later[1])
        ELSE Offset(content, Len(content) + 1)

\* C26: the content of every extracted item, for every form type, runs from
\* its heading to the start of the next item heading later in the document,
\* or to the end of the document when none follows.
C26_ContentEndsAtNextHeading ==
    lastOp.op = "extractItems" =>
        \A n \in DOMAIN lastOp.key :
            lastOp.key[n].endPosition =
                NextHeading(scope.content, lastOp.key[n].startPosition)

\* An item definition has a heading of its own in the content.
Occurs(itemDef) ==
    \E i \in 1..Len(scope.content) : scope.content[i] = Heading(itemDef)

\* The result has an entry that belongs to an item definition and starts at
\* one of its headings.
HasOwnEntry(itemDef) ==
    \E n \in DOMAIN lastOp.key :
        /\ lastOp.key[n].itemNumber = itemDef.number
        /\ lastOp.key[n].title = itemDef.title
        /\ scope.content[PieceAt(scope.content, lastOp.key[n].startPosition)]
               = Heading(itemDef)

\* C30: two distinct item definitions whose headings both occur in the
\* document give two distinct result entries, each at its own heading; the
\* Part I and Part II items of a 10-Q that share a number included.
C30_DefinitionsNeverMerged ==
    lastOp.op = "extractItems" =>
        LET itemDefinitions == formItems(scope.formType)
        IN  \A d1, d2 \in DOMAIN itemDefinitions :
                (d1 # d2 /\ Occurs(itemDefinitions[d1]) /\ Occurs(itemDefinitions[d2]))
                    => /\ HasOwnEntry(itemDefinitions[d1])
                       /\ HasOwnEntry(itemDefinitions[d2])
                       /\ Cardinality(DOMAIN lastOp.key) >= 2

\* C27: after any sequence of Cache operations the access-order list holds
\* exactly the keys of the entry map, each once; so an eviction at capacity
\* removes one key that was stored.
C27_AccessOrderIsStoredKeys ==
    /\ {store.accessOrder[i] : i \in 1..Len(store.accessOrder)} = DOMAIN store.cache
    /\ Len(store.accessOrder) = Cardinality(DOMAIN store.cache)
    /\ (lastOp.op = "set" /\ lastOp.evicted # {})
           => Cardinality(lastOp.evicted) = 1

\* A set() has evicted one key from a full cache of two, and the list
\* holds the two keys now stored.
C27_Witness ==
    /\ lastOp.op = "set"
    /\ Cardinality(lastOp.evicted) = 1
    /\ lastOp.evicted \cap DOMAIN store.cache = {}
    /\ Len(store.accessOrder) = 2

\* C28: after a failed attempt that is not the last of the budget, get()
\* backs off and retries exactly when ErrorHandler.isRetryable holds of the
\* error, and surfaces every other error at once.
C28_RetryDecisionIsRetryable ==
    \A c \in DOMAIN calls :
        (/\ calls[c].pc \in {"backoff", "failed"}
         /\ calls[c].outcome.kind \in {"http", "abort", "net", "other"}
         /\ calls[c].attempt < client.maxRetries)
        => (calls[c].pc = "backoff" <=> isRetryable(calls[c].lastError))

\* C29: a getCompanyTickers(true) that returns has dispatched a new request
\* for the ticker directory, whatever the in-memory copy and the response
\* cache of the HttpClient hold, and returns the response to it.
C29_ForceRefreshDispatches ==
    (/\ lastOp.op = "getCompanyTickers"
     /\ lastOp.forceRefresh
     /\ lastOp.ended = "returned")
    => lastOp.fetches > 0


====
